---- MODULE Spec2Model ----
(***************************************************************************)
(* A model of the uWave acoustic modem driver (uwave_interface.py) and of  *)
(* the way the GUI (uwave_gui.py) calls it.                                *)
(*                                                                         *)
(* Text is a sequence of one-character strings, so that split, strip,     *)
(* startswith, the checksum and float() are computed character by         *)
(* character.  Numbers read from the wire are fixed-point integers in      *)
(* thousandths (float("0.01") is 10, float("20.0") is 20000); ranges are   *)
(* millimetres, speeds millimetres per second, clock readings seconds.     *)
(***************************************************************************)
EXTENDS Integers, Sequences, FiniteSets, TLC

\* ------------------------------------------------------------------ bounds
\* Most transports left open without a reference to them.
MaxOrphans == 1
\* Lines of additional_responses the model retains (the most recent ones).
MaxAdditional == 1
\* Clock readings are 0..MaxTime.
MaxTime == 1
\* callbacks of root.after() the Tk main loop has not run yet
MaxPending == 2

\* --------------------------------------------------------------- constants
\* DEFAULT_SALINITY = 0.0 and DEFAULT_DEPTH = 0.0, in thousandths.
DEFAULT_SALINITY == 0
DEFAULT_DEPTH == 0
\* max_timeout = 5 of the follow-up loop.
max_timeout == 5

\* Python's None for a text value, for a number and for a port.
None == <<"None">>
NoneNum == -1
NoPort == "None"

\* ------------------------------------------------------------------- text
Digits == {"0", "1", "2", "3", "4", "5", "6", "7", "8", "9"}
Whitespace == {" ", "\r", "\n", "\t"}

\* ord(char) for the characters the model's commands are written in.
Ord(ch) ==
  CASE ch = "$" -> 36 [] ch = "*" -> 42 [] ch = "," -> 44 [] ch = "-" -> 45
    [] ch = "." -> 46 [] ch = "!" -> 33 [] ch = "?" -> 63
    [] ch = "0" -> 48 [] ch = "1" -> 49 [] ch = "2" -> 50 [] ch = "3" -> 51
    [] ch = "4" -> 52 [] ch = "5" -> 53 [] ch = "6" -> 54 [] ch = "7" -> 55
    [] ch = "8" -> 56 [] ch = "9" -> 57
    [] ch = "D" -> 68 [] ch = "E" -> 69 [] ch = "P" -> 80 [] ch = "U" -> 85
    [] ch = "V" -> 86 [] ch = "W" -> 87 [] ch = "a" -> 97 [] ch = "b" -> 98
    [] ch = " " -> 32 [] ch = "\r" -> 13 [] ch = "\n" -> 10 [] ch = "\t" -> 9

\* str.startswith(prefix)
StartsWith(s, prefix) ==
  /\ Len(s) >= Len(prefix)
  /\ SubSeq(s, 1, Len(prefix)) = prefix

\* "ch in s"
Contains(s, ch) == \E i \in 1..Len(s) : s[i] = ch

\* str.strip(): leading and trailing whitespace removed.
RECURSIVE LStripWs(_)
LStripWs(s) ==
  IF s # <<>> /\ Head(s) \in Whitespace THEN LStripWs(Tail(s)) ELSE s

RECURSIVE RStripWs(_)
RStripWs(s) ==
  IF s # <<>> /\ s[Len(s)] \in Whitespace
    THEN RStripWs(SubSeq(s, 1, Len(s) - 1))
    ELSE s

Strip(s) == RStripWs(LStripWs(s))

\* str.lstrip(ch): every leading ch removed.
RECURSIVE LStripChar(_, _)
LStripChar(s, ch) ==
  IF s # <<>> /\ Head(s) = ch THEN LStripChar(Tail(s), ch) ELSE s

\* str.split(sep) for a one-character sep: always at least one field.
RECURSIVE SplitFrom(_, _, _)
SplitFrom(s, sep, cur) ==
  IF s = <<>> THEN <<cur>>
  ELSE IF Head(s) = sep THEN <<cur>> \o SplitFrom(Tail(s), sep, <<>>)
  ELSE SplitFrom(Tail(s), sep, Append(cur, Head(s)))

Split(s, sep) == SplitFrom(s, sep, <<>>)

\* s[:n]
Prefix(s, n) == SubSeq(s, 1, IF Len(s) < n THEN Len(s) ELSE n)

\* ------------------------------------------------------------- float(text)
\* The value of a run of decimal digits.
RECURSIVE DigitsValue(_)
DigitsValue(s) ==
  IF s = <<>> THEN 0
  ELSE 10 * DigitsValue(SubSeq(s, 1, Len(s) - 1)) + (Ord(s[Len(s)]) - 48)

AllDigits(s) == \A i \in 1..Len(s) : s[i] \in Digits

\* The first three decimals of a fraction, in thousandths.
Thousandths(frac) ==
  LET padded == SubSeq(frac \o <<"0", "0", "0">>, 1, 3)
  IN DigitsValue(padded)

\* float(text): [ok |-> FALSE] stands for ValueError; otherwise val is the
\* number in thousandths.  Accepted: optional sign, digits with at most one
\* decimal point, at least one digit, surrounding whitespace ignored.
ParseFloat(text) ==
  LET t == Strip(text)
      neg == t # <<>> /\ Head(t) = "-"
      body == IF neg THEN Tail(t) ELSE t
      parts == Split(body, ".")
      whole == parts[1]
      frac == IF Len(parts) > 1 THEN parts[2] ELSE <<>>
      wellFormed ==
        /\ Len(parts) <= 2
        /\ AllDigits(whole)
        /\ AllDigits(frac)
        /\ Len(whole) + Len(frac) > 0
      magnitude == 1000 * DigitsValue(whole) + Thousandths(frac)
  IN IF wellFormed
       THEN [ok |-> TRUE, val |-> IF neg THEN 0 - magnitude ELSE magnitude]
       ELSE [ok |-> FALSE, val |-> 0]

\* --------------------------------------------------------------- checksum
\* a ^ b on non-negative integers.
RECURSIVE Xor(_, _)
Xor(a, b) ==
  IF a = 0 THEN b
  ELSE IF b = 0 THEN a
  ELSE (((a % 2) + (b % 2)) % 2) + 2 * Xor(a \div 2, b \div 2)

RECURSIVE XorAll(_)
XorAll(s) == IF s = <<>> THEN 0 ELSE Xor(Ord(Head(s)), XorAll(Tail(s)))

HexDigit(n) ==
  <<"0", "1", "2", "3", "4", "5", "6", "7",
    "8", "9", "A", "B", "C", "D", "E", "F">>[n + 1]

\* "{:02X}".format(n) for n < 256
Format02X(n) == <<HexDigit(n \div 16), HexDigit(n % 16)>>

\* calculate_nmea_checksum without lstrip("$").
calculate_nmea_checksum_with_dollar(sentence) ==
  LET checksum_part == Split(sentence, "*")[1]
  IN Format02X(XorAll(checksum_part))

calculate_nmea_checksum(sentence) ==
  LET checksum_part == Split(LStripChar(sentence, "$"), "*")[1]
  IN Format02X(XorAll(checksum_part))

\* format_command without the test for "*" in the command.
format_command_appending(command, include_checksum) ==
  IF ~include_checksum
    THEN command
    ELSE command \o <<"*">> \o calculate_nmea_checksum(command)

format_command(command, include_checksum) ==
  IF ~include_checksum \/ Contains(command, "*")
    THEN command
    ELSE command \o <<"*">> \o calculate_nmea_checksum(command)

\* ----------------------------------------------------------------- parsers
NoRecord == [ok |-> FALSE]

\* parse_puwv3 asking for the value field as well.
parse_puwv3_strict(response) ==
  LET parts == Split(Split(response, "*")[1], ",")
  IN IF Len(parts) < 6
       THEN NoRecord
       ELSE [ok |-> TRUE,
             cmd_type |-> Prefix(parts[1], 5),
             remote_addr |-> parts[2],
             cmd_id |-> parts[3],
             prop_time |-> parts[4],
             signal_quality |-> parts[5],
             value |-> parts[6],
             azimuth |-> IF Len(parts) > 6 THEN parts[7] ELSE <<>>]

\* parse_puwv3: the IndexError of parts[1..4] is caught and None returned.
parse_puwv3(response) ==
  LET parts == Split(Split(response, "*")[1], ",")
  IN IF Len(parts) < 5
       THEN NoRecord
       ELSE [ok |-> TRUE,
             cmd_type |-> Prefix(parts[1], 5),
             remote_addr |-> parts[2],
             cmd_id |-> parts[3],
             prop_time |-> parts[4],
             signal_quality |-> parts[5],
             value |-> IF Len(parts) > 5 THEN parts[6] ELSE <<>>,
             azimuth |-> IF Len(parts) > 6 THEN parts[7] ELSE <<>>]

\* parse_puwv_bang taking a salinity that is not a number for 0.
parse_puwv_bang_lenient(response) ==
  LET parts == Split(Split(response, "*")[1], ",")
  IN IF Len(parts) < 13
       THEN NoRecord
       ELSE [ok |-> TRUE,
             cmd_type |-> Prefix(parts[1], 5),
             serial_number |-> parts[2],
             salinity |-> parts[11],
             has_pts |-> parts[12],
             cmd_mode |-> parts[13],
             new_salinity |-> ParseFloat(parts[11]).val]

\* parse_puwv_bang: the IndexError of parts[1..12] and the ValueError of
\* float(salinity) are caught and None returned; the assignment to
\* self.salinity is the record's new_salinity, applied by the caller's step.
parse_puwv_bang(response) ==
  LET parts == Split(Split(response, "*")[1], ",")
  IN IF Len(parts) < 13 \/ ~ParseFloat(parts[11]).ok
       THEN NoRecord
       ELSE [ok |-> TRUE,
             cmd_type |-> Prefix(parts[1], 5),
             serial_number |-> parts[2],
             salinity |-> parts[11],
             has_pts |-> parts[12],
             cmd_mode |-> parts[13],
             new_salinity |-> ParseFloat(parts[11]).val]

\* ----------------------------------------------------------------- metrics
Abs(x) == IF x < 0 THEN 0 - x ELSE x

\* The integer square root, by bisection.
RECURSIVE SqrtBetween(_, _, _)
SqrtBetween(n, lo, hi) ==
  IF lo >= hi THEN lo
  ELSE LET mid == (lo + hi + 1) \div 2
       IN IF mid * mid <= n
            THEN SqrtBetween(n, mid, hi)
            ELSE SqrtBetween(n, lo, mid - 1)

ISqrt(n) == SqrtBetween(n, 0, 46340)

\* calculate_sound_velocity without the term in temperature * (salinity - 35).
calculate_sound_velocity_uncrossed(temperature, salinity, depth) ==
  LET T == temperature
      S35 == salinity - 35000
      Dm == depth \div 1000
      T2 == (T * T) \div 1000
      T3 == ((T2 \div 1000) * T) \div 1000
      c1 == 1448960 + (4591 * T) \div 1000
              - (5304 * (T2 \div 100)) \div 1000
              + (2374 * T3) \div 10000
      c2 == (1340 * S35) \div 1000 + (163 * depth) \div 10000
              + (1675 * (Dm * Dm)) \div 10000000
      c3 == 0 - ((7139 * (((Dm * Dm * Dm) \div 1000) * (T \div 1000)))
                   \div 100000) \div 100000
  IN c1 + c2 + c3

\* Mackenzie equation.  temperature, salinity and depth in thousandths, the
\* result in mm/s; each term is rounded down to a whole mm/s.
calculate_sound_velocity(temperature, salinity, depth) ==
  LET T == temperature
      S35 == salinity - 35000
      Dm == depth \div 1000
      T2 == (T * T) \div 1000
      T3 == ((T2 \div 1000) * T) \div 1000
      c1 == 1448960 + (4591 * T) \div 1000
              - (5304 * (T2 \div 100)) \div 1000
              + (2374 * T3) \div 10000
      c2 == (1340 * S35) \div 1000 + (163 * depth) \div 10000
              + (1675 * (Dm * Dm)) \div 10000000
      c3 == 0 - (1025 * ((T * S35) \div 1000)) \div 100000
              - ((7139 * (((Dm * Dm * Dm) \div 1000) * (T \div 1000)))
                   \div 100000) \div 100000
  IN c1 + c2 + c3

\* abs(float(propagation_time)) * sound_velocity / 2, in mm
calculate_slant_range(propagation_time, sound_velocity) ==
  (Abs(propagation_time) * sound_velocity) \div 2000

\* calculate_horizontal_distance without the test of the depth difference
\* against the slant range.
calculate_horizontal_distance_unclamped(slant_range, depth_difference) ==
  ISqrt(Abs(slant_range * slant_range - depth_difference * depth_difference))

calculate_horizontal_distance(slant_range, depth_difference) ==
  IF Abs(depth_difference) >= slant_range
    THEN 0
    ELSE ISqrt(slant_range * slant_range - depth_difference * depth_difference)

\* calculate_velocity taking an empty history for a range of 0 one second
\* earlier instead of returning 0.
calculate_velocity_unseeded(hist_range, hist_time, current_range, current_time) ==
  IF hist_range = NoneNum \/ hist_time = NoneNum
    THEN [velocity |-> current_range, last_range |-> current_range,
          last_range_time |-> current_time]
  ELSE IF current_time - hist_time <= 0
    THEN [velocity |-> 0, last_range |-> hist_range,
          last_range_time |-> hist_time]
  ELSE [velocity |-> (current_range - hist_range) \div (current_time - hist_time),
        last_range |-> current_range,
        last_range_time |-> current_time]

\* calculate_velocity storing the observation of a call whose time_diff is
\* not positive.
calculate_velocity_restamping(hist_range, hist_time, current_range, current_time) ==
  IF hist_range = NoneNum \/ hist_time = NoneNum
    THEN [velocity |-> 0, last_range |-> current_range,
          last_range_time |-> current_time]
  ELSE IF current_time - hist_time <= 0
    THEN [velocity |-> 0, last_range |-> current_range,
          last_range_time |-> current_time]
  ELSE [velocity |-> (current_range - hist_range) \div (current_time - hist_time),
        last_range |-> current_range,
        last_range_time |-> current_time]

\* calculate_velocity returning 0 on an empty history without storing the
\* observation.
calculate_velocity_unstored(hist_range, hist_time, current_range, current_time) ==
  IF hist_range = NoneNum \/ hist_time = NoneNum
    THEN [velocity |-> 0, last_range |-> hist_range,
          last_range_time |-> hist_time]
  ELSE IF current_time - hist_time <= 0
    THEN [velocity |-> 0, last_range |-> hist_range,
          last_range_time |-> hist_time]
  ELSE [velocity |-> (current_range - hist_range) \div (current_time - hist_time),
        last_range |-> current_range,
        last_range_time |-> current_time]

\* calculate_velocity keeping the stored observation when it computes a
\* rate.
calculate_velocity_keeping(hist_range, hist_time, current_range, current_time) ==
  IF hist_range = NoneNum \/ hist_time = NoneNum
    THEN [velocity |-> 0, last_range |-> current_range,
          last_range_time |-> current_time]
  ELSE IF current_time - hist_time <= 0
    THEN [velocity |-> 0, last_range |-> hist_range,
          last_range_time |-> hist_time]
  ELSE [velocity |-> (current_range - hist_range) \div (current_time - hist_time),
        last_range |-> hist_range,
        last_range_time |-> hist_time]

\* calculate_velocity as a function of the stored history: the value it
\* returns and the history it leaves.
calculate_velocity(hist_range, hist_time, current_range, current_time) ==
  IF hist_range = NoneNum \/ hist_time = NoneNum
    THEN [velocity |-> 0, last_range |-> current_range,
          last_range_time |-> current_time]
  ELSE IF current_time - hist_time <= 0
    THEN [velocity |-> 0, last_range |-> hist_range,
          last_range_time |-> hist_time]
  ELSE [velocity |-> (current_range - hist_range) \div (current_time - hist_time),
        last_range |-> current_range,
        last_range_time |-> current_time]

\* ------------------------------------------------------- commands and lines
\* the prefix of a command to the remote station
PUWV2 ==
  <<"$", "P", "U", "W", "V", "2">>

\* the prefix of a remote response
PUWV3 ==
  <<"$", "P", "U", "W", "V", "3">>

\* the prefix of a device-information sentence
PUWVBang ==
  <<"$", "P", "U", "W", "V", "!">>

\* command = "$PUWV?,0" of get_device_info
CmdDeviceInfo ==
  <<"$", "P", "U", "W", "V", "?", ",", "0">>

\* f"$PUWV2,0,0,{remote_cmd_id}" of get_remote_data(3)
CmdRemoteTemp ==
  <<"$", "P", "U", "W", "V", "2", ",", "0", ",", "0", ",", "3">>

\* The commands a caller passes to send_command.
Commands == {CmdDeviceInfo, CmdRemoteTemp}

\* command = "$PUWVD,0" of get_packet_mode_settings
CmdPacketSettings ==
  <<"$", "P", "U", "W", "V", "D", ",", "0">>

\* What ser.readline() can yield: b"" on a timeout, or a line of the device.
\* $PUWV0,2,0\r\n
AckLine ==
  <<"$", "P", "U", "W", "V", "0", ",", "2", ",", "0", "\r", "\n">>

\* $PUWV3,0,3,0.01,25,20.0\r\n
TempLine ==
  <<"$", "P", "U", "W", "V", "3", ",", "0", ",", "3", ",", "0", ".", "0",
    "1", ",", "2", "5", ",", "2", "0", ".", "0", "\r", "\n">>

\* $PUWV3,0,2,0.01,25,1.5\r\n
DepthLine ==
  <<"$", "P", "U", "W", "V", "3", ",", "0", ",", "2", ",", "0", ".", "0",
    "1", ",", "2", "5", ",", "1", ".", "5", "\r", "\n">>

\* $PUWV3,0,3,0.01,25,\r\n
EmptyValueLine ==
  <<"$", "P", "U", "W", "V", "3", ",", "0", ",", "3", ",", "0", ".", "0",
    "1", ",", "2", "5", ",", "\r", "\n">>

\* $PUWV3,0,3,0.01,25,ab\r\n
BadValueLine ==
  <<"$", "P", "U", "W", "V", "3", ",", "0", ",", "3", ",", "0", ".", "0",
    "1", ",", "2", "5", ",", "a", "b", "\r", "\n">>

\* $PUWV3,0,3,0.01,a,20.0\r\n
BadQualityLine ==
  <<"$", "P", "U", "W", "V", "3", ",", "0", ",", "3", ",", "0", ".", "0",
    "1", ",", "a", ",", "2", "0", ".", "0", "\r", "\n">>

\* $PUWV3,0,3,0.01,25\r\n
FiveFieldLine ==
  <<"$", "P", "U", "W", "V", "3", ",", "0", ",", "3", ",", "0", ".", "0",
    "1", ",", "2", "5", "\r", "\n">>

\* $PUWV3,0\r\n
ShortLine ==
  <<"$", "P", "U", "W", "V", "3", ",", "0", "\r", "\n">>

\* $PUWV!,1,W,1,W,1,9,0,0,9,35.0,1,1\r\n
InfoLine ==
  <<"$", "P", "U", "W", "V", "!", ",", "1", ",", "W", ",", "1", ",", "W",
    ",", "1", ",", "9", ",", "0", ",", "0", ",", "9", ",", "3", "5", ".",
    "0", ",", "1", ",", "1", "\r", "\n">>

\* \r\n
BlankLine ==
  <<"\r", "\n">>

TimeoutRead == <<>>

DeviceLines ==
  {TimeoutRead, BlankLine, AckLine, TempLine, DepthLine,
   EmptyValueLine, BadValueLine, BadQualityLine, FiveFieldLine, ShortLine,
   InfoLine}

\* What a caller can hand to parse_puwv3 besides the lines above.
\* $PUWV3
OneFieldText ==
  <<"$", "P", "U", "W", "V", "3">>

\* $PUWV3,0,3
ThreeFieldText ==
  <<"$", "P", "U", "W", "V", "3", ",", "0", ",", "3">>

\* $PUWV3,0,3,0.01
FourFieldText ==
  <<"$", "P", "U", "W", "V", "3", ",", "0", ",", "3", ",", "0", ".", "0",
    "1">>

\* $PUWV3,0,3,0.01,25*1A
FiveFieldChecksumText ==
  <<"$", "P", "U", "W", "V", "3", ",", "0", ",", "3", ",", "0", ".", "0",
    "1", ",", "2", "5", "*", "1", "A">>

\* $PUWV3,0,3,0.01,25,20.0,90.0
SevenFieldText ==
  <<"$", "P", "U", "W", "V", "3", ",", "0", ",", "3", ",", "0", ".", "0",
    "1", ",", "2", "5", ",", "2", "0", ".", "0", ",", "9", "0", ".", "0">>

ParseInputs ==
  {Strip(raw) : raw \in DeviceLines}
    \cup {OneFieldText, ThreeFieldText, FourFieldText, FiveFieldChecksumText,
          SevenFieldText}

\* parse_puwv3 of each of them, computed once.
parsed_text == [response \in ParseInputs |-> parse_puwv3(response)]

Ports == {"A", "B"}
\* What list_available_ports() can return.
PortListings == {<<>>, <<"B">>, <<"A", "B">>}
\* What datetime.now() can read, in seconds.
Times == 0..MaxTime

\* readline().decode("ascii", errors="ignore").strip() of each thing the
\* device can send, and parse_puwv3 of it: computed once per line.
stripped == [raw \in DeviceLines |-> Strip(raw)]
parsed_puwv3 == [raw \in DeviceLines |-> parse_puwv3(Strip(raw))]
\* full_command = self.format_command(command) of each command.
formatted ==
  [command \in Commands \cup {CmdPacketSettings} |->
     format_command(command, TRUE)]

\* ------------------------------------------------------------------ state
\* The threads of the program that call the monitor: the Tk main loop
\* (_connection_done) and the worker thread the GUI's handlers start.
Threads == {"ui", "worker"}

VARIABLES
  port,             \* self.port, NoPort for None
  ser,              \* self.ser: "None", or a Serial that is "open" or "closed"
  orphans,          \* open Serial objects self.ser no longer refers to
  last_range,       \* self.last_range, NoneNum for None
  last_range_time,  \* self.last_range_time, NoneNum for None
  salinity,         \* self.salinity
  pc,               \* where each thread stands in the call it is in
  frame,            \* each thread's call: arguments, locals, outcome, and
                    \* what the call has put on the serial line (tx), in
                    \* LOG_FILE (log) and in CSV_FILE (rows) so far; for a
                    \* call of a parser its argument (response) and the
                    \* record it returned (parsed); for a call of another
                    \* method its arguments (args) and the number it
                    \* returned (result); for connect what
                    \* list_available_ports() returned (ports), None when
                    \* it was not called; for a command of the console the
                    \* "Add Checksum" box (add_checksum)
  gui               \* the window of uwave_gui.py: self.worker_thread, the
                    \* state of its buttons, the callbacks root.after() has
                    \* queued for the Tk main loop, and the callback the
                    \* main loop is running

vars ==
  <<port, ser, orphans, last_range, last_range_time, salinity, pc, frame,
    gui>>

\* A thread that has called nothing yet.  The files are append-only and the
\* driver never reads them, so a call's own lines are all that is kept.
NoCall ==
  [op |-> "none", outcome |-> "none", command |-> <<>>,
   wait_for_response |-> FALSE, wait_for_puwv3 |-> FALSE,
   full_command |-> <<>>, main_response |-> None,
   additional_responses |-> <<>>, timeout_count |-> 0,
   tx |-> <<>>, log |-> <<>>, rows |-> <<>>,
   response |-> <<>>, parsed |-> NoRecord,
   args |-> <<>>, result |-> 0, ports |-> None, add_checksum |-> FALSE]

\* self.worker_thread when it is None or a thread that has finished.
NoThread ==
  [target |-> "None", stage |-> "finished", port |-> NoPort, count |-> 0]

\* UwaveGUI.__init__ and setup_ui: no worker thread, every button but
\* Connect created with state=tk.DISABLED.  "commands" is the state of the
\* info, packet, ping, depth, temp, battery and send buttons, which every
\* assignment of the GUI sets together.
gui_init ==
  [worker_thread |-> NoThread,
   buttons |-> [connect |-> TRUE, disconnect |-> FALSE, commands |-> FALSE,
                monitor |-> FALSE],
   after |-> <<>>,
   running |-> "mainloop"]

\* UwaveMonitor.__init__, and the window around it
Init ==
  /\ port = NoPort
  /\ ser = "None"
  /\ orphans = 0
  /\ last_range = NoneNum
  /\ last_range_time = NoneNum
  /\ salinity = DEFAULT_SALINITY
  /\ pc = [t \in Threads |-> "idle"]
  /\ frame = [t \in Threads |-> NoCall]
  /\ gui = gui_init

\* "self.ser" without "self.ser.is_open".
is_open_unless_absent == ser # "None"

\* "self.ser and self.ser.is_open"
is_open == ser = "open"

\* ------------------------------------------------------ connect, disconnect
\* connect_port without "elif not self.port".
connect_port_without_memory(arg, listing) ==
  IF arg # NoPort THEN arg
  ELSE IF listing # <<>> THEN listing[1]
  ELSE NoPort

\* The port connect() settles on: the argument, else self.port, else the
\* first port listed, else none.
connect_port(arg, listing) ==
  IF arg # NoPort THEN arg
  ELSE IF port # NoPort THEN port
  ELSE IF listing # <<>> THEN listing[1]
  ELSE NoPort

\* self.ser after serial.Serial(...) returned or raised.
connect_ser(opened) == IF opened THEN "open" ELSE ser

\* The open transports nothing refers to after connect: the Serial that
\* self.ser referred to is not closed by connect; left without a reference
\* it stays open unless the runtime finalizes it.
connect_orphans(opened, finalized) ==
  IF opened /\ is_open /\ ~finalized THEN orphans + 1 ELSE orphans

\* list_available_ports() is asked only without an argument and a stored
\* port; the finalizer matters only when an open Serial loses its reference.
listings_asked(arg) ==
  IF arg = NoPort /\ port = NoPort THEN PortListings ELSE {<<>>}

finalizations(opened) == IF opened /\ is_open THEN BOOLEAN ELSE {FALSE}

\* The frame of a call of connect(arg): "ports" is bound only in the branch
\* that calls list_available_ports().
connect_frame(arg, listing, outcome) ==
  [NoCall EXCEPT !.op = "connect", !.outcome = outcome, !.args = <<arg>>,
                 !.ports = IF arg = NoPort /\ port = NoPort
                             THEN listing ELSE None]

Connect(t) ==
  /\ pc[t] = "idle"
  /\ \E arg \in Ports \cup {NoPort}, opened \in BOOLEAN :
       \E listing \in listings_asked(arg), finalized \in finalizations(opened) :
       LET chosen == connect_port(arg, listing)
       IN IF chosen = NoPort
            THEN /\ frame' = [frame EXCEPT ![t] =
                      connect_frame(arg, listing, "NoPortAvailable")]
                 /\ UNCHANGED <<port, ser, orphans>>
            ELSE /\ connect_orphans(opened, finalized) <= MaxOrphans
                 /\ port' = chosen
                 /\ ser' = connect_ser(opened)
                 /\ orphans' = connect_orphans(opened, finalized)
                 /\ frame' = [frame EXCEPT ![t] =
                      connect_frame(arg, listing,
                                    IF opened THEN "True" ELSE "OpenFailed")]
  /\ UNCHANGED <<last_range, last_range_time, salinity, pc>>

\* disconnect without self.ser.close().
disconnect_ser_kept == ser

disconnect_ser == IF is_open THEN "closed" ELSE ser

Disconnect(t) ==
  /\ pc[t] = "idle"
  /\ ser' = disconnect_ser
  /\ frame' = [frame EXCEPT ![t] =
       [NoCall EXCEPT !.op = "disconnect", !.outcome = "returned"]]
  /\ UNCHANGED <<port, orphans, last_range, last_range_time, salinity, pc>>

\* ------------------------------------------------------------- send_command
\* log_communication without "if response:".
log_communication_commands_only(command, response) ==
  IF command # None /\ command # <<>> THEN <<<<"TX", command>>>> ELSE <<>>

\* log_communication(command, response): the lines it appends.
log_communication(command, response) ==
  (IF command # None /\ command # <<>> THEN <<<<"TX", command>>>> ELSE <<>>)
    \o (IF response # None /\ response # <<>>
          THEN <<<<"RX", response>>>> ELSE <<>>)

\* The frame of a call of send_command after full_command is formatted.
begin_frame(op, command, wait_for_response, wait_for_puwv3) ==
  [NoCall EXCEPT !.op = op, !.outcome = "pending", !.command = command,
                 !.wait_for_response = wait_for_response,
                 !.wait_for_puwv3 = wait_for_puwv3,
                 !.full_command = formatted[command]]

\* The frame when send_command returns main_response and
\* additional_responses; its other locals are gone.
returned(fr) == [fr EXCEPT !.outcome = "returned", !.timeout_count = 0]

\* The frame when an exception leaves send_command.
raised(fr, exception) ==
  [fr EXCEPT !.outcome = exception, !.timeout_count = 0]

\* "if wait_for_puwv3 and command.startswith("$PUWV2")", which stands inside
\* "if wait_for_response".
enters_followup(fr) ==
  /\ fr.wait_for_response
  /\ fr.wait_for_puwv3
  /\ StartsWith(fr.command, PUWV2)

\* produces_metrics without the test of the command id.
produces_metrics_any_command(parsed) ==
  /\ parsed.ok
  /\ parsed.value # <<>>

\* "if parsed: if parsed["cmd_id"] == "3" and parsed["value"]"
produces_metrics(parsed) ==
  /\ parsed.ok
  /\ parsed.cmd_id = <<"3">>
  /\ parsed.value # <<>>

\* additional_responses.append(line); the model retains the last
\* MaxAdditional lines.
append_response(list, line) ==
  IF Len(list) < MaxAdditional
    THEN Append(list, line)
    ELSE Append(Tail(list), line)

\* The metrics branch of the follow-up loop for a parsed temperature
\* response: float() of a field raises ValueError out of send_command;
\* calculate_velocity has updated the history by the time
\* float(parsed["signal_quality"]) is evaluated for log_metrics.
derive_metrics(parsed, full_command, hist_range, hist_time, sal, now2) ==
  LET temp == ParseFloat(parsed.value)
      prop_time == ParseFloat(parsed.prop_time)
      quality == ParseFloat(parsed.signal_quality)
      sound_vel == calculate_sound_velocity(temp.val, sal, DEFAULT_DEPTH)
      slant_range == calculate_slant_range(prop_time.val, sound_vel)
      horiz_dist == calculate_horizontal_distance(slant_range, 0)
      v == calculate_velocity(hist_range, hist_time, slant_range, now2)
  IN IF ~temp.ok \/ ~prop_time.ok
       THEN [raised |-> TRUE, rows |-> <<>>,
             last_range |-> hist_range, last_range_time |-> hist_time]
     ELSE IF ~quality.ok
       THEN [raised |-> TRUE, rows |-> <<>>,
             last_range |-> v.last_range,
             last_range_time |-> v.last_range_time]
     ELSE [raised |-> FALSE,
           rows |-> <<[command |-> full_command,
                       response_type |-> "PUWV3",
                       remote_addr |-> parsed.remote_addr,
                       cmd_id |-> parsed.cmd_id,
                       prop_time |-> prop_time.val,
                       signal_quality |-> quality.val,
                       value |-> temp.val,
                       slant_range |-> slant_range,
                       horiz_dist |-> horiz_dist,
                       velocity |-> v.velocity]>>,
           last_range |-> v.last_range,
           last_range_time |-> v.last_range_time]

\* followup_effect clearing the history on a response that gives no
\* metrics.
followup_effect_resetting(parsed, full_command, hist_range, hist_time, sal, now2) ==
  IF produces_metrics(parsed)
    THEN derive_metrics(parsed, full_command, hist_range, hist_time, sal,
                        now2)
    ELSE [raised |-> FALSE, rows |-> <<>>,
          last_range |-> NoneNum, last_range_time |-> NoneNum]

\* What a "$PUWV3" follow-up line does to CSV_FILE and the history.
followup_effect(parsed, full_command, hist_range, hist_time, sal, now2) ==
  IF produces_metrics(parsed)
    THEN derive_metrics(parsed, full_command, hist_range, hist_time, sal,
                        now2)
    ELSE [raised |-> FALSE, rows |-> <<>>,
          last_range |-> hist_range, last_range_time |-> hist_time]

\* The clock readings that matter to a follow-up line: datetime.now() is
\* read only for calculate_velocity.
readings(raw) ==
  IF StartsWith(stripped[raw], PUWV3) /\ produces_metrics(parsed_puwv3[raw])
    THEN Times
    ELSE {0}

\* The tail of get_device_info: parse_puwv_bang on a "$PUWV!" response sets
\* self.salinity.
salinity_after(fr) ==
  IF /\ fr.op = "get_device_info"
     /\ fr.main_response # None
     /\ StartsWith(fr.main_response, PUWVBang)
     /\ parse_puwv_bang(fr.main_response).ok
    THEN parse_puwv_bang(fr.main_response).new_salinity
    ELSE salinity

\* BeginFlagged without ser.write().
BeginFlagged_unwritten(t, op, command, wait_for_response, wait_for_puwv3, written, add_checksum) ==
  LET fr == [begin_frame(op, command, wait_for_response, wait_for_puwv3)
               EXCEPT !.add_checksum = add_checksum]
      sent == fr
  IN IF ~is_open
       THEN /\ frame' = [frame EXCEPT ![t] =
                 [NoCall EXCEPT !.op = op, !.outcome = "refused",
                                !.command = command,
                                !.wait_for_response = wait_for_response,
                                !.wait_for_puwv3 = wait_for_puwv3,
                                !.add_checksum = add_checksum]]
            /\ pc' = pc
     ELSE IF ~written
       THEN /\ frame' = [frame EXCEPT ![t] = raised(fr, "SerialException")]
            /\ pc' = pc
     ELSE IF wait_for_response
       THEN /\ frame' = [frame EXCEPT ![t] = sent]
            /\ pc' = [pc EXCEPT ![t] = "primary"]
     ELSE /\ frame' = [frame EXCEPT ![t] = returned(sent)]
          /\ pc' = pc

\* The call up to and including ser.write(): the open check, format_command
\* and the write, which raises when the transport fails.  add_checksum is
\* the caller's own local, which send_command is not given.
BeginFlagged(t, op, command, wait_for_response, wait_for_puwv3, written, add_checksum) ==
  LET fr == [begin_frame(op, command, wait_for_response, wait_for_puwv3)
               EXCEPT !.add_checksum = add_checksum]
      sent == [fr EXCEPT !.tx = <<fr.full_command \o <<"\n">>>>]
  IN IF ~is_open
       THEN /\ frame' = [frame EXCEPT ![t] =
                 [NoCall EXCEPT !.op = op, !.outcome = "refused",
                                !.command = command,
                                !.wait_for_response = wait_for_response,
                                !.wait_for_puwv3 = wait_for_puwv3,
                                !.add_checksum = add_checksum]]
            /\ pc' = pc
     ELSE IF ~written
       THEN /\ frame' = [frame EXCEPT ![t] = raised(fr, "SerialException")]
            /\ pc' = pc
     ELSE IF wait_for_response
       THEN /\ frame' = [frame EXCEPT ![t] = sent]
            /\ pc' = [pc EXCEPT ![t] = "primary"]
     ELSE /\ frame' = [frame EXCEPT ![t] = returned(sent)]
          /\ pc' = pc

\* A call of send_command by a caller that has no checksum box.
Begin(t, op, command, wait_for_response, wait_for_puwv3, written) ==
  BeginFlagged(t, op, command, wait_for_response, wait_for_puwv3, written,
               FALSE)

\* ser.write() returns or raises; it is reached only on an open port.
write_outcomes == IF is_open THEN BOOLEAN ELSE {TRUE}

SendCommand(t) ==
  /\ pc[t] = "idle"
  /\ \E command \in Commands, wait_for_response \in BOOLEAN,
        wait_for_puwv3 \in BOOLEAN, written \in write_outcomes :
       Begin(t, "send_command", command, wait_for_response, wait_for_puwv3,
             written)
  /\ UNCHANGED <<port, ser, orphans, last_range, last_range_time, salinity>>

\* get_device_info: send_command("$PUWV?,0"), then parse_puwv_bang.
GetDeviceInfo(t) ==
  /\ pc[t] = "idle"
  /\ \E written \in write_outcomes :
       Begin(t, "get_device_info", CmdDeviceInfo, TRUE, FALSE, written)
  /\ UNCHANGED <<port, ser, orphans, last_range, last_range_time, salinity>>

\* A read of ser.readline() that raises.
ReadFails(t) ==
  /\ pc[t] \in {"primary", "followup"}
  /\ frame' = [frame EXCEPT ![t] = raised(frame[t], "SerialException")]
  /\ pc' = [pc EXCEPT ![t] = "idle"]
  /\ UNCHANGED <<port, ser, orphans, last_range, last_range_time, salinity>>

\* The read of "if wait_for_response:" and what follows it up to the next
\* read or the return, when the line read is one of `lines`.
ReadPrimaryFrom(t, lines) ==
  /\ pc[t] = "primary"
  /\ \E raw \in lines :
       LET fr == frame[t]
           line == stripped[raw]
           fr1 == IF line # <<>>
                    THEN [fr EXCEPT
                            !.main_response = line,
                            !.log = @ \o log_communication(fr.full_command,
                                                           line)]
                    ELSE fr
       IN IF enters_followup(fr)
            THEN /\ pc' = [pc EXCEPT ![t] = "followup"]
                 /\ frame' = [frame EXCEPT ![t] = fr1]
                 /\ UNCHANGED salinity
            ELSE /\ pc' = [pc EXCEPT ![t] = "idle"]
                 /\ frame' = [frame EXCEPT ![t] = returned(fr1)]
                 /\ salinity' = salinity_after(fr1)
  /\ UNCHANGED <<port, ser, orphans, last_range, last_range_time>>

\* The read with any line the device can send.
ReadPrimary(t) == ReadPrimaryFrom(t, DeviceLines)

\* ReadFollowup reading once more after max_timeout empty reads.
ReadFollowup_patient(t) ==
  /\ pc[t] = "followup"
  /\ \E raw \in DeviceLines :
       \E now2 \in readings(raw) :
       LET fr == frame[t]
           line == stripped[raw]
           appended ==
             [fr EXCEPT !.additional_responses =
                          append_response(fr.additional_responses, line)]
           m == followup_effect(parsed_puwv3[raw], fr.full_command, last_range,
                                last_range_time, salinity, now2)
       IN IF line = <<>>
            THEN /\ IF fr.timeout_count < max_timeout
                      THEN /\ frame' = [frame EXCEPT ![t].timeout_count = @ + 1]
                           /\ pc' = pc
                      ELSE /\ frame' = [frame EXCEPT ![t] = returned(fr)]
                           /\ pc' = [pc EXCEPT ![t] = "idle"]
                 /\ UNCHANGED <<last_range, last_range_time>>
          ELSE IF ~StartsWith(line, PUWV3)
            THEN /\ frame' = [frame EXCEPT ![t] = appended]
                 /\ pc' = pc
                 /\ UNCHANGED <<last_range, last_range_time>>
          ELSE /\ last_range' = m.last_range
               /\ last_range_time' = m.last_range_time
               /\ pc' = [pc EXCEPT ![t] = "idle"]
               /\ frame' = [frame EXCEPT ![t] =
                    IF m.raised
                      THEN raised(appended, "ValueError")
                      ELSE returned(
                             [appended EXCEPT
                                !.rows = @ \o m.rows,
                                !.log = @ \o log_communication(None, line)])]
  /\ UNCHANGED <<port, ser, orphans, salinity>>

\* One turn of "while timeout_count < max_timeout:": the read and what
\* follows it up to the next read or the return.
ReadFollowupFrom(t, lines) ==
  /\ pc[t] = "followup"
  /\ \E raw \in lines :
       \E now2 \in readings(raw) :
       LET fr == frame[t]
           line == stripped[raw]
           appended ==
             [fr EXCEPT !.additional_responses =
                          append_response(fr.additional_responses, line)]
           m == followup_effect(parsed_puwv3[raw], fr.full_command, last_range,
                                last_range_time, salinity, now2)
       IN IF line = <<>>
            THEN /\ IF fr.timeout_count + 1 < max_timeout
                      THEN /\ frame' = [frame EXCEPT ![t].timeout_count = @ + 1]
                           /\ pc' = pc
                      ELSE /\ frame' = [frame EXCEPT ![t] = returned(fr)]
                           /\ pc' = [pc EXCEPT ![t] = "idle"]
                 /\ UNCHANGED <<last_range, last_range_time>>
          ELSE IF ~StartsWith(line, PUWV3)
            THEN /\ frame' = [frame EXCEPT ![t] = appended]
                 /\ pc' = pc
                 /\ UNCHANGED <<last_range, last_range_time>>
          ELSE /\ last_range' = m.last_range
               /\ last_range_time' = m.last_range_time
               /\ pc' = [pc EXCEPT ![t] = "idle"]
               /\ frame' = [frame EXCEPT ![t] =
                    IF m.raised
                      THEN raised(appended, "ValueError")
                      ELSE returned(
                             [appended EXCEPT
                                !.rows = @ \o m.rows,
                                !.log = @ \o log_communication(None, line)])]
  /\ UNCHANGED <<port, ser, orphans, salinity>>

\* The read with any line the device can send.
ReadFollowup(t) == ReadFollowupFrom(t, DeviceLines)

\* A call of parse_puwv3(response) by a user of the monitor.
ParsePuwv3(t) ==
  /\ pc[t] = "idle"
  /\ \E response \in ParseInputs :
       frame' = [frame EXCEPT ![t] =
         [NoCall EXCEPT !.op = "parse_puwv3", !.outcome = "returned",
                        !.response = response,
                        !.parsed = parsed_text[response]]]
  /\ UNCHANGED <<port, ser, orphans, last_range, last_range_time, salinity,
                 pc>>

\* ------------------------------------------------------------ the console
\* send_custom_command and the _send_command_thread it starts: the command
\* of the entry and the "Add Checksum" box are read, and send_command is
\* called with the command alone; formatted_command is computed after the
\* call and used by nothing.
SendCustomCommand(t) ==
  /\ pc[t] = "idle"
  /\ \E command \in Commands, add_checksum \in BOOLEAN,
        written \in write_outcomes :
       BeginFlagged(t, "send_custom_command", command, TRUE,
                    StartsWith(command, PUWV2), written, add_checksum)
  /\ UNCHANGED <<port, ser, orphans, last_range, last_range_time, salinity>>

\* ------------------------------------------------- methods called directly
\* What a caller can hand to format_command and calculate_nmea_checksum:
\* commands, a command without the leading "$", a sentence that carries a
\* checksum, and one that ends in the delimiter.
\* PUWV?,0
PayloadOnlyText ==
  <<"P", "U", "W", "V", "?", ",", "0">>

\* $PUWV?,0*
DelimiterOnlyText ==
  <<"$", "P", "U", "W", "V", "?", ",", "0", "*">>

CodecInputs ==
  {CmdDeviceInfo, CmdRemoteTemp, Strip(AckLine), PayloadOnlyText,
   FiveFieldChecksumText, DelimiterOnlyText}

\* The texts at hand for a call: the inputs, and what the call before it
\* returned.
codec_texts(t) ==
  CodecInputs \cup (IF frame[t].op = "format_command"
                      THEN {frame[t].full_command} ELSE {})

\* A call of format_command(command, include_checksum).
FormatCommand(t) ==
  /\ pc[t] = "idle"
  /\ \E command \in codec_texts(t), include_checksum \in BOOLEAN :
       frame' = [frame EXCEPT ![t] =
         [NoCall EXCEPT !.op = "format_command", !.outcome = "returned",
                        !.command = command,
                        !.args = <<include_checksum>>,
                        !.full_command =
                           format_command(command, include_checksum)]]
  /\ UNCHANGED <<port, ser, orphans, last_range, last_range_time, salinity,
                 pc>>

\* A call of calculate_nmea_checksum(sentence).
CalculateNmeaChecksum(t) ==
  /\ pc[t] = "idle"
  /\ \E sentence \in codec_texts(t) :
       frame' = [frame EXCEPT ![t] =
         [NoCall EXCEPT !.op = "calculate_nmea_checksum",
                        !.outcome = "returned",
                        !.command = sentence,
                        !.response = calculate_nmea_checksum(sentence)]]
  /\ UNCHANGED <<port, ser, orphans, last_range, last_range_time, salinity,
                 pc>>

\* What a caller can hand to parse_puwv_bang.
\* $PUWV!,1,W,1,W,1,9,0,0,9,ab,1,1
BadSalinityText ==
  <<"$", "P", "U", "W", "V", "!", ",", "1", ",", "W", ",", "1", ",", "W",
    ",", "1", ",", "9", ",", "0", ",", "0", ",", "9", ",", "a", "b", ",",
    "1", ",", "1">>

\* $PUWV!,1,W
ShortInfoText ==
  <<"$", "P", "U", "W", "V", "!", ",", "1", ",", "W">>

BangInputs == {Strip(InfoLine), BadSalinityText, ShortInfoText}

\* parse_puwv_bang of each of them, computed once.
parsed_bang == [response \in BangInputs |-> parse_puwv_bang(response)]

\* A call of parse_puwv_bang(response): "self.salinity = float(salinity)"
\* stands before the return.
ParsePuwvBang(t) ==
  /\ pc[t] = "idle"
  /\ \E response \in BangInputs :
       /\ frame' = [frame EXCEPT ![t] =
            [NoCall EXCEPT !.op = "parse_puwv_bang", !.outcome = "returned",
                           !.response = response,
                           !.parsed = parsed_bang[response]]]
       /\ salinity' = IF parsed_bang[response].ok
                        THEN parsed_bang[response].new_salinity
                        ELSE salinity
  /\ UNCHANGED <<port, ser, orphans, last_range, last_range_time, pc>>

\* The ranges (mm) and clock readings (s) a caller hands to
\* calculate_velocity.
Ranges == {0, 100000, 102000}
ClockReadings == 0..(MaxTime + 1)

\* A call of calculate_velocity(current_range, current_time).
CalculateVelocity(t) ==
  /\ pc[t] = "idle"
  /\ \E current_range \in Ranges, current_time \in ClockReadings :
       LET v == calculate_velocity(last_range, last_range_time, current_range,
                                   current_time)
       IN /\ last_range' = v.last_range
          /\ last_range_time' = v.last_range_time
          /\ frame' = [frame EXCEPT ![t] =
               [NoCall EXCEPT !.op = "calculate_velocity",
                              !.outcome = "returned",
                              !.args = <<current_range, current_time>>,
                              !.result = v.velocity]]
  /\ UNCHANGED <<port, ser, orphans, salinity, pc>>

\* The slant ranges and depth differences (mm) a caller hands to
\* calculate_horizontal_distance.
SlantRanges == {0, 5000, 10000}
DepthDifferences == {-6000, 0, 6000}

\* A call of calculate_horizontal_distance(slant_range, depth_difference).
CalculateHorizontalDistance(t) ==
  /\ pc[t] = "idle"
  /\ \E slant_range \in SlantRanges, depth_difference \in DepthDifferences :
       frame' = [frame EXCEPT ![t] =
         [NoCall EXCEPT !.op = "calculate_horizontal_distance",
                        !.outcome = "returned",
                        !.args = <<slant_range, depth_difference>>,
                        !.result = calculate_horizontal_distance(
                                     slant_range, depth_difference)]]
  /\ UNCHANGED <<port, ser, orphans, last_range, last_range_time, salinity,
                 pc>>

\* The temperatures, salinities and depths (thousandths) a caller hands to
\* calculate_sound_velocity; NoneNum is an argument left out.
Temperatures == {0, 20000}
Salinities == {NoneNum, 0, 35000}
Depths == {NoneNum, 0, 100000}

\* "if salinity is None: salinity = self.salinity"
salinity_or_ambient(arg) == IF arg = NoneNum THEN salinity ELSE arg

\* "if depth is None: depth = DEFAULT_DEPTH"
depth_or_default(arg) == IF arg = NoneNum THEN DEFAULT_DEPTH ELSE arg

\* A call of calculate_sound_velocity(temperature, salinity, depth).
CalculateSoundVelocity(t) ==
  /\ pc[t] = "idle"
  /\ \E temperature \in Temperatures, sal \in Salinities, depth \in Depths :
       frame' = [frame EXCEPT ![t] =
         [NoCall EXCEPT !.op = "calculate_sound_velocity",
                        !.outcome = "returned",
                        !.args = <<temperature, sal, depth>>,
                        !.result = calculate_sound_velocity(
                                     temperature,
                                     salinity_or_ambient(sal),
                                     depth_or_default(depth))]]
  /\ UNCHANGED <<port, ser, orphans, last_range, last_range_time, salinity,
                 pc>>

\* ------------------------------------------------------------------ the GUI
\* get_remote_data(3): send_command(f"$PUWV2,0,0,3", wait_for_puwv3=True).
GetRemoteData(t) ==
  /\ pc[t] = "idle"
  /\ \E written \in write_outcomes :
       Begin(t, "get_remote_data", CmdRemoteTemp, TRUE, TRUE, written)
  /\ UNCHANGED <<port, ser, orphans, last_range, last_range_time, salinity>>

\* get_packet_mode_settings: send_command("$PUWVD,0"), then parse_puwve,
\* which touches nothing of the monitor.
GetPacketModeSettings(t) ==
  /\ pc[t] = "idle"
  /\ \E written \in write_outcomes :
       Begin(t, "get_packet_mode_settings", CmdPacketSettings, TRUE, FALSE,
             written)
  /\ UNCHANGED <<port, ser, orphans, last_range, last_range_time, salinity>>

\* "self.worker_thread and self.worker_thread.is_alive()"
is_alive == gui.worker_thread # NoThread

\* threading.Thread(target=..., args=...) once start() has returned: the
\* thread has not made its call of the monitor yet.
started(target, arg_port, count) ==
  [target |-> target, stage |-> "started", port |-> arg_port,
   count |-> count]

\* The Tk main loop is between two callbacks: it can run a handler or the
\* next callback of root.after().
in_mainloop ==
  /\ gui.running = "mainloop"
  /\ pc["ui"] = "idle"

\* A button whose state is tk.NORMAL can be pressed.
pressed(button) == in_mainloop /\ gui.buttons[button]

\* root.after() has room for one more callback: the main loop has run the
\* earlier ones by the time a thread queues the next.
after_has_room == Len(gui.after) < MaxPending

\* The worker thread stands at `stage` of `target`.
at(target, stage) ==
  /\ gui.worker_thread.target = target
  /\ gui.worker_thread.stage = stage

\* What the device sends while the window is used: nothing, an
\* acknowledgement, a temperature response, a device-information sentence.
AppLines == {TimeoutRead, AckLine, TempLine, InfoLine}

\* The readings the "Count" box of the monitoring tab can hold.
Counts == {1, 2}

\* The buttons after _connection_done(True).
buttons_connected ==
  [connect |-> FALSE, disconnect |-> TRUE, commands |-> TRUE,
   monitor |-> TRUE]

\* The buttons after _disconnection_done.
buttons_disconnected ==
  [connect |-> TRUE, disconnect |-> FALSE, commands |-> FALSE,
   monitor |-> FALSE]

\* connect_modem with a port chosen in the combobox
ConnectModem ==
  /\ pressed("connect")
  /\ ~is_alive
  /\ \E arg_port \in Ports :
       gui' = [gui EXCEPT
                 !.buttons.connect = FALSE,
                 !.worker_thread = started("_connect_thread", arg_port, 0)]
  /\ UNCHANGED <<port, ser, orphans, last_range, last_range_time, salinity,
                 pc, frame>>

\* disconnect_modem
DisconnectModem ==
  /\ pressed("disconnect")
  /\ ~is_alive
  /\ gui' = [gui EXCEPT
               !.worker_thread = started("_disconnect_thread", NoPort, 0),
               !.buttons.disconnect = FALSE]
  /\ UNCHANGED <<port, ser, orphans, last_range, last_range_time, salinity,
                 pc, frame>>

\* UwaveGUI.get_device_info
GuiGetDeviceInfo ==
  /\ pressed("commands")
  /\ ~is_alive
  /\ gui' = [gui EXCEPT
               !.worker_thread = started("_device_info_thread", NoPort, 0)]
  /\ UNCHANGED <<port, ser, orphans, last_range, last_range_time, salinity,
                 pc, frame>>

\* get_packet_settings
GetPacketSettings ==
  /\ pressed("commands")
  /\ ~is_alive
  /\ gui' = [gui EXCEPT
               !.worker_thread =
                 started("_packet_settings_thread", NoPort, 0)]
  /\ UNCHANGED <<port, ser, orphans, last_range, last_range_time, salinity,
                 pc, frame>>

\* UwaveGUI.get_remote_data(cmd_id) of the temperature button
GuiGetRemoteData ==
  /\ pressed("commands")
  /\ ~is_alive
  /\ gui' = [gui EXCEPT
               !.worker_thread = started("_remote_data_thread", NoPort, 0)]
  /\ UNCHANGED <<port, ser, orphans, last_range, last_range_time, salinity,
                 pc, frame>>

\* start_monitoring
StartMonitoring ==
  /\ pressed("monitor")
  /\ ~is_alive
  /\ \E count \in Counts :
       gui' = [gui EXCEPT
                 !.buttons.monitor = FALSE,
                 !.worker_thread =
                   started("_monitoring_thread", NoPort, count)]
  /\ UNCHANGED <<port, ser, orphans, last_range, last_range_time, salinity,
                 pc, frame>>

\* send_custom_command with a command in the entry; the command and the
\* box are read here and used by SendCommandThread.
GuiSendCustomCommand ==
  /\ pressed("commands")
  /\ ~is_alive
  /\ gui' = [gui EXCEPT
               !.worker_thread = started("_send_command_thread", NoPort, 0)]
  /\ UNCHANGED <<port, ser, orphans, last_range, last_range_time, salinity,
                 pc, frame>>

\* _connect_thread: monitor.connect(port), then
\* root.after(0, lambda: self._connection_done(success)).
ConnectThread ==
  /\ at("_connect_thread", "started")
  /\ after_has_room
  /\ Connect("worker")
  /\ frame'["worker"].args = <<gui.worker_thread.port>>
  /\ gui' = [gui EXCEPT
               !.after = Append(@, IF frame'["worker"].outcome = "True"
                                     THEN "_connection_done(True)"
                                     ELSE "_connection_done(False)"),
               !.worker_thread.stage = "finishing"]

\* _disconnect_thread: monitor.disconnect(), then
\* root.after(0, self._disconnection_done).
DisconnectThread ==
  /\ at("_disconnect_thread", "started")
  /\ after_has_room
  /\ Disconnect("worker")
  /\ gui' = [gui EXCEPT !.after = Append(@, "_disconnection_done"),
                        !.worker_thread.stage = "finishing"]

\* _device_info_thread up to the write of monitor.get_device_info()
DeviceInfoThread ==
  /\ at("_device_info_thread", "started")
  /\ GetDeviceInfo("worker")
  /\ gui' = [gui EXCEPT !.worker_thread.stage = "calling"]

\* _packet_settings_thread up to the write of
\* monitor.get_packet_mode_settings()
PacketSettingsThread ==
  /\ at("_packet_settings_thread", "started")
  /\ GetPacketModeSettings("worker")
  /\ gui' = [gui EXCEPT !.worker_thread.stage = "calling"]

\* _remote_data_thread up to the write of monitor.get_remote_data(cmd_id)
RemoteDataThread ==
  /\ at("_remote_data_thread", "started")
  /\ GetRemoteData("worker")
  /\ gui' = [gui EXCEPT !.worker_thread.stage = "calling"]

\* _monitoring_thread up to the write of one monitor.get_remote_data(3)
MonitoringThread ==
  /\ at("_monitoring_thread", "started")
  /\ GetRemoteData("worker")
  /\ gui' = [gui EXCEPT !.worker_thread.stage = "calling"]

\* _send_command_thread up to the write of monitor.send_command(...)
SendCommandThread ==
  /\ at("_send_command_thread", "started")
  /\ SendCustomCommand("worker")
  /\ gui' = [gui EXCEPT !.worker_thread.stage = "calling"]

\* The exception of send_command that reaches the caller, if any.
call_raised(t) == frame[t].outcome \notin {"returned", "refused"}

\* The thread after its call of the monitor has returned or raised.  The
\* status and response callbacks the threads queue change no button and are
\* left out; _monitoring_thread sleeps and reads again, or queues
\* _enable_monitor_button at the end of its loop and in its except branch.
thread_after_call ==
  IF /\ gui.worker_thread.target = "_monitoring_thread"
     /\ ~call_raised("worker")
     /\ gui.worker_thread.count > 1
    THEN [gui EXCEPT !.worker_thread.stage = "started",
                     !.worker_thread.count = @ - 1]
  ELSE IF gui.worker_thread.target = "_monitoring_thread"
    THEN [gui EXCEPT !.after = Append(@, "_enable_monitor_button"),
                     !.worker_thread.stage = "finishing"]
  ELSE [gui EXCEPT !.worker_thread.stage = "finishing"]

ThreadReturns ==
  /\ gui.worker_thread.stage = "calling"
  /\ pc["worker"] = "idle"
  /\ after_has_room
  /\ gui' = thread_after_call
  /\ UNCHANGED <<port, ser, orphans, last_range, last_range_time, salinity,
                 pc, frame>>

\* The target of the thread returns: is_alive() is False from here on, and
\* nothing is left of the call the thread made.
ThreadExits ==
  /\ gui.worker_thread.stage = "finishing"
  /\ gui' = [gui EXCEPT !.worker_thread = NoThread]
  /\ frame' = [frame EXCEPT !["worker"] = NoCall]
  /\ UNCHANGED <<port, ser, orphans, last_range, last_range_time, salinity,
                 pc>>

\* The callback root.after() queued first is the one the main loop runs.
next_callback(name) ==
  /\ in_mainloop
  /\ gui.after # <<>>
  /\ Head(gui.after) = name

\* _connection_done(True) up to the write of monitor.get_device_info(),
\* which it calls on the main loop.
ConnectionDone ==
  /\ next_callback("_connection_done(True)")
  /\ GetDeviceInfo("ui")
  /\ gui' = [gui EXCEPT !.after = Tail(@), !.running = "_connection_done"]

\* _connection_done(True) after get_device_info(): the buttons are set
\* unless the call raised, which ends the callback; the main loop is left
\* with nothing of the call.
ConnectionDoneReturns ==
  /\ gui.running = "_connection_done"
  /\ pc["ui"] = "idle"
  /\ gui' = [gui EXCEPT
               !.running = "mainloop",
               !.buttons = IF call_raised("ui") THEN @
                           ELSE buttons_connected]
  /\ frame' = [frame EXCEPT !["ui"] = NoCall]
  /\ UNCHANGED <<port, ser, orphans, last_range, last_range_time, salinity,
                 pc>>

\* _connection_done(False)
ConnectionFailed ==
  /\ next_callback("_connection_done(False)")
  /\ gui' = [gui EXCEPT !.after = Tail(@), !.buttons.connect = TRUE]
  /\ UNCHANGED <<port, ser, orphans, last_range, last_range_time, salinity,
                 pc, frame>>

\* _disconnection_done
DisconnectionDone ==
  /\ next_callback("_disconnection_done")
  /\ gui' = [gui EXCEPT !.after = Tail(@),
                        !.buttons = buttons_disconnected]
  /\ UNCHANGED <<port, ser, orphans, last_range, last_range_time, salinity,
                 pc, frame>>

\* _enable_monitor_button
EnableMonitorButton ==
  /\ next_callback("_enable_monitor_button")
  /\ gui' = [gui EXCEPT !.after = Tail(@), !.buttons.monitor = TRUE]
  /\ UNCHANGED <<port, ser, orphans, last_range, last_range_time, salinity,
                 pc, frame>>

\* ---------------------------------------------------------- specifications
\* One caller, as in the driver's own main() and in each worker of the GUI:
\* every operation is synchronous.
Next ==
  \/ Connect("worker") /\ UNCHANGED gui
  \/ Disconnect("worker") /\ UNCHANGED gui
  \/ SendCommand("worker") /\ UNCHANGED gui
  \/ GetDeviceInfo("worker") /\ UNCHANGED gui
  \/ ParsePuwv3("worker") /\ UNCHANGED gui
  \/ ReadFails("worker") /\ UNCHANGED gui
  \/ ReadPrimary("worker") /\ UNCHANGED gui
  \/ ReadFollowup("worker") /\ UNCHANGED gui

Spec == Init /\ [][Next]_vars

\* The same caller with a serial line whose reads come back: readline()
\* returns within self.timeout, so a call waiting in a read goes on.
FairSpec ==
  /\ Spec
  /\ WF_vars(ReadPrimary("worker") /\ UNCHANGED gui)
  /\ WF_vars(ReadFollowup("worker") /\ UNCHANGED gui)

\* Two threads on one monitor, as the GUI has them: get_device_info is
\* called on the Tk main loop by _connection_done and on a worker thread by
\* _device_info_thread, and nothing in the monitor keeps the calls apart.
ConcNext ==
  \E t \in Threads :
    \/ Connect(t) /\ UNCHANGED gui
    \/ Disconnect(t) /\ UNCHANGED gui
    \/ GetDeviceInfo(t) /\ UNCHANGED gui
    \/ ReadFails(t) /\ UNCHANGED gui
    \/ ReadPrimary(t) /\ UNCHANGED gui

ConcSpec == Init /\ [][ConcNext]_vars

\* The console tab of the GUI on its worker thread.
GuiNext ==
  \/ Connect("worker") /\ UNCHANGED gui
  \/ Disconnect("worker") /\ UNCHANGED gui
  \/ SendCustomCommand("worker") /\ UNCHANGED gui
  \/ ReadFails("worker") /\ UNCHANGED gui
  \/ ReadPrimary("worker") /\ UNCHANGED gui
  \/ ReadFollowup("worker") /\ UNCHANGED gui

GuiSpec == Init /\ [][GuiNext]_vars

\* A caller that uses the monitor's methods one by one, without a port.
UnitNext ==
  \/ FormatCommand("worker") /\ UNCHANGED gui
  \/ CalculateNmeaChecksum("worker") /\ UNCHANGED gui
  \/ ParsePuwvBang("worker") /\ UNCHANGED gui
  \/ CalculateVelocity("worker") /\ UNCHANGED gui
  \/ CalculateHorizontalDistance("worker") /\ UNCHANGED gui
  \/ CalculateSoundVelocity("worker") /\ UNCHANGED gui

UnitSpec == Init /\ [][UnitNext]_vars

\* The window: the handlers on the Tk main loop, the worker thread they
\* start, and the callbacks the worker queues for the main loop.
AppNext ==
  \/ ConnectModem
  \/ DisconnectModem
  \/ GuiGetDeviceInfo
  \/ GetPacketSettings
  \/ GuiGetRemoteData
  \/ StartMonitoring
  \/ GuiSendCustomCommand
  \/ ConnectThread
  \/ DisconnectThread
  \/ DeviceInfoThread
  \/ PacketSettingsThread
  \/ RemoteDataThread
  \/ MonitoringThread
  \/ SendCommandThread
  \/ ThreadReturns
  \/ ThreadExits
  \/ ConnectionDone
  \/ ConnectionDoneReturns
  \/ ConnectionFailed
  \/ DisconnectionDone
  \/ EnableMonitorButton
  \/ \E t \in Threads : ReadFails(t) /\ UNCHANGED gui
  \/ \E t \in Threads : ReadPrimaryFrom(t, AppLines) /\ UNCHANGED gui
  \/ ReadFollowupFrom("worker", AppLines) /\ UNCHANGED gui

AppSpec == Init /\ [][AppNext]_vars

\* ------------------------------------------------------------------ claims
Last(s) == s[Len(s)]

\* The calls that are a send: send_command itself and get_device_info,
\* which makes one.
SendOps == {"send_command", "get_device_info"}

\* A RemoteResponse line with command id Temperature and a non-empty value.
TemperatureResponse(line) ==
  /\ StartsWith(line, PUWV3)
  /\ parse_puwv3(line).ok
  /\ parse_puwv3(line).cmd_id = <<"3">>
  /\ parse_puwv3(line).value # <<>>

\* A RemoteResponse line one of whose numeric fields is not a number.
NonNumericField(line) ==
  /\ StartsWith(line, PUWV3)
  /\ parse_puwv3(line).ok
  /\ \/ ~ParseFloat(parse_puwv3(line).value).ok
     \/ ~ParseFloat(parse_puwv3(line).prop_time).ok
     \/ ~ParseFloat(parse_puwv3(line).signal_quality).ok

\* The comma-separated fields of a line before its checksum delimiter.
FieldCount(line) ==
  1 + Cardinality({i \in 1..Len(line) :
                     /\ line[i] = ","
                     /\ \A j \in 1..i : line[j] # "*"})

\* The transports open at once: the one self.ser refers to and the orphans.
OpenTransports == (IF is_open THEN 1 ELSE 0) + orphans

\* The follow-up read of thread t that ends its call on the line it read.
EndsOnLine(t) ==
  /\ pc[t] = "followup"
  /\ pc'[t] = "idle"
  /\ frame'[t].additional_responses # <<>>
  /\ StartsWith(Last(frame'[t].additional_responses), PUWV3)

\* C1: every call of send_command eventually returns, whatever lines and
\* timeouts the device produces.
C1_SendReturns == \A t \in Threads : (pc[t] # "idle") ~> (pc[t] = "idle")

\* C2: at most one send is outstanding on a monitor at any time.
C2_SingleFlight == Cardinality({t \in Threads : pc[t] # "idle"}) <= 1

\* C3: at most one transport is open in every reachable state.
C3_OneTransport == OpenTransports <= 1

\* C4: a send that returns has persisted one metric row for each
\* temperature response it received, as its primary response or as a
\* follow-up.
C4_TemperatureSampled ==
  \A t \in Threads :
    (pc[t] = "idle" /\ frame[t].op \in SendOps /\ frame[t].outcome = "returned")
      => Len(frame[t].rows) =
           (IF frame[t].main_response # None
                 /\ TemperatureResponse(frame[t].main_response)
              THEN 1 ELSE 0)
           + (IF frame[t].additional_responses # <<>>
                   /\ TemperatureResponse(Last(frame[t].additional_responses))
                THEN 1 ELSE 0)

\* C5: a step that adds a metric row or changes the range history is the
\* follow-up read of a temperature response with a non-empty value; a
\* response with another command id or an empty value does neither.
C5_OnlyTemperatureSamples ==
  [][(\/ last_range' # last_range
      \/ last_range_time' # last_range_time
      \/ \E t \in Threads : /\ frame'[t].rows # <<>>
                            /\ frame'[t].rows # frame[t].rows)
       => \E t \in Threads :
            /\ EndsOnLine(t)
            /\ TemperatureResponse(Last(frame'[t].additional_responses))]_vars

\* C5 witness: a send that ended on a depth response with the history
\* already seeded, and persisted nothing.
C5_Witness ==
  /\ last_range # NoneNum
  /\ pc["worker"] = "idle"
  /\ frame["worker"].outcome = "returned"
  /\ frame["worker"].additional_responses # <<>>
  /\ Last(frame["worker"].additional_responses) = Strip(DepthLine)
  /\ frame["worker"].rows = <<>>

\* C6: with an empty history a send whose primary response is the
\* acknowledgement and whose follow-up is the temperature response returns
\* with exactly one metric row, of velocity 0; and no send persists more
\* than one row.
C6_FirstSample ==
  /\ [][\A t \in Threads :
          (/\ EndsOnLine(t)
           /\ last_range = NoneNum
           /\ last_range_time = NoneNum
           /\ frame[t].main_response = Strip(AckLine)
           /\ Last(frame'[t].additional_responses) = Strip(TempLine))
            => /\ frame'[t].outcome = "returned"
               /\ Len(frame'[t].rows) = 1
               /\ frame'[t].rows[1].velocity = 0]_vars
  /\ [](\A t \in Threads : Len(frame[t].rows) <= 1)

\* C6 witness: the end-to-end scenario has run: acknowledgement, then the
\* temperature response, one row of velocity 0 at 7.408 m.
C6_Witness ==
  /\ pc["worker"] = "idle"
  /\ frame["worker"].outcome = "returned"
  /\ frame["worker"].command = CmdRemoteTemp
  /\ frame["worker"].main_response = Strip(AckLine)
  /\ frame["worker"].additional_responses = <<Strip(TempLine)>>
  /\ Len(frame["worker"].rows) = 1
  /\ frame["worker"].rows[1].velocity = 0
  /\ frame["worker"].rows[1].slant_range = 7408
  /\ last_range = 7408

\* C7: a send that received a RemoteResponse with a non-numeric field
\* still returns normally.
C7_ParseFailureReturns ==
  \A t \in Threads :
    (/\ pc[t] = "idle"
     /\ frame[t].op \in SendOps
     /\ frame[t].additional_responses # <<>>
     /\ NonNumericField(Last(frame[t].additional_responses)))
      => frame[t].outcome = "returned"

C9_FollowupIndependentOfPrimary ==
  [][\A t \in Threads :
       (/\ pc[t] \in {"idle", "primary"}
        /\ pc'[t] = "idle"
        /\ frame'[t] # frame[t]
        /\ frame'[t].op = "send_command"
        /\ frame'[t].outcome = "returned")
         => ~(/\ frame'[t].wait_for_puwv3
              /\ StartsWith(frame'[t].command, PUWV2))]_vars

\* C10: after an operation that failed on the transport (the open in
\* connect, the write or a read in send) no transport is held open.
C10_FailureDisconnects ==
  \A t \in Threads :
    frame[t].outcome \in {"OpenFailed", "SerialException"} => ~is_open

\* The lines of a call's log that are of one kind ("TX" or "RX").
LogLines(fr, kind) == {i \in 1..Len(fr.log) : fr.log[i][1] = kind}

\* C11: a send that returns has logged one TX line for each command it
\* wrote and an RX line for each non-empty line it received, the primary
\* response and the follow-up lines.
C11_EveryLineLogged ==
  \A t \in Threads :
    (pc[t] = "idle" /\ frame[t].op \in SendOps /\ frame[t].outcome = "returned")
      => /\ Cardinality(LogLines(frame[t], "TX")) = Len(frame[t].tx)
         /\ frame[t].main_response # None =>
              \E i \in LogLines(frame[t], "RX") :
                frame[t].log[i][2] = frame[t].main_response
         /\ \A k \in 1..Len(frame[t].additional_responses) :
              \E i \in LogLines(frame[t], "RX") :
                frame[t].log[i][2] = frame[t].additional_responses[k]

\* C12: what a command of the console puts on the serial line is the
\* command encoded under its "Add Checksum" box: unchanged when the box is
\* off, with the checksum appended when it is on.
C12_ChecksumFlagHonoured ==
  \A t \in Threads :
    (frame[t].op = "send_custom_command" /\ frame[t].tx # <<>>)
      => frame[t].tx =
           <<format_command(frame[t].command, frame[t].add_checksum)
               \o <<"\n">>>>

\* C13: a call of parse_puwv_bang leaves self.salinity as it was.
C13_DecodeLeavesSalinity ==
  [][\A t \in Threads :
       frame'[t].op = "parse_puwv_bang" => salinity' = salinity]_vars

\* A step that is a call of calculate_velocity by thread t on a history
\* that holds an observation.
VelocityOnHistory(t) ==
  /\ frame'[t].op = "calculate_velocity"
  /\ last_range # NoneNum
  /\ last_range_time # NoneNum

\* C14: calculate_velocity with a current_time not later than the stored
\* time returns 0 and leaves last_range and last_range_time unchanged.
C14_NonMonotonicLeavesHistory ==
  [][\A t \in Threads :
       (VelocityOnHistory(t) /\ frame'[t].args[2] <= last_range_time)
         => /\ frame'[t].result = 0
            /\ last_range' = last_range
            /\ last_range_time' = last_range_time]_vars

\* C14 witness: on the history (100 m, 1 s) a call with (102 m, 0 s) has
\* returned 0 and the history is still (100 m, 1 s).
C14_Witness ==
  /\ frame["worker"].op = "calculate_velocity"
  /\ frame["worker"].args = <<102000, 0>>
  /\ frame["worker"].result = 0
  /\ last_range = 100000
  /\ last_range_time = 1

\* C15: calculate_velocity on an empty history returns 0 and stores
\* exactly (current_range, current_time).
C15_FirstObservationSeeds ==
  [][\A t \in Threads :
       (/\ frame'[t].op = "calculate_velocity"
        /\ (last_range = NoneNum \/ last_range_time = NoneNum))
         => /\ frame'[t].result = 0
            /\ last_range' = frame'[t].args[1]
            /\ last_range_time' = frame'[t].args[2]]_vars

\* C15 witness: the first call, with (102 m, 0 s), has returned 0 and the
\* history is (102 m, 0 s).
C15_Witness ==
  /\ frame["worker"].op = "calculate_velocity"
  /\ frame["worker"].args = <<102000, 0>>
  /\ frame["worker"].result = 0
  /\ last_range = 102000
  /\ last_range_time = 0

\* C16: calculate_velocity on a stored observation with a later
\* current_time returns (current_range - last_range) / elapsed and stores
\* the new observation.
C16_RateAndHistory ==
  [][\A t \in Threads :
       (VelocityOnHistory(t) /\ frame'[t].args[2] > last_range_time)
         => /\ frame'[t].result =
                 (frame'[t].args[1] - last_range)
                   \div (frame'[t].args[2] - last_range_time)
            /\ last_range' = frame'[t].args[1]
            /\ last_range_time' = frame'[t].args[2]]_vars

\* C16 witness: 100 m, then 102 m one second later, gives 2.0 m/s.
C16_Witness ==
  /\ frame["worker"].op = "calculate_velocity"
  /\ frame["worker"].args = <<102000, 1>>
  /\ frame["worker"].result = 2000
  /\ last_range = 102000
  /\ last_range_time = 1

\* The value of an uppercase hexadecimal digit.
UpperHex ==
  <<"0", "1", "2", "3", "4", "5", "6", "7",
    "8", "9", "A", "B", "C", "D", "E", "F">>

HexValue(ch) == (CHOOSE i \in 1..16 : UpperHex[i] = ch) - 1

IsUpperHex(ch) == \E i \in 1..16 : UpperHex[i] = ch

\* The characters of a command without its leading "$", if it has one.
Payload(command) == IF Head(command) = "$" THEN Tail(command) ELSE command

\* C17: format_command of a command that has no "*" returns the command,
\* "*" and two uppercase hex digits whose value is the XOR of the code
\* points after the leading "$"; calculate_nmea_checksum of the result gives
\* the same two digits; the payload PUWV?,0 gets 27.
C17_ChecksumAppended ==
  \A t \in Threads :
    (/\ frame[t].op = "format_command"
     /\ frame[t].args = <<TRUE>>
     /\ ~Contains(frame[t].command, "*"))
      => LET command == frame[t].command
             encoded == frame[t].full_command
             n == Len(command)
         IN /\ Len(encoded) = n + 3
            /\ SubSeq(encoded, 1, n) = command
            /\ encoded[n + 1] = "*"
            /\ IsUpperHex(encoded[n + 2])
            /\ IsUpperHex(encoded[n + 3])
            /\ 16 * HexValue(encoded[n + 2]) + HexValue(encoded[n + 3])
                 = XorAll(Payload(command))
            /\ calculate_nmea_checksum(encoded)
                 = <<encoded[n + 2], encoded[n + 3]>>
            /\ Payload(command) = PayloadOnlyText
                 => <<encoded[n + 2], encoded[n + 3]>> = <<"2", "7">>

\* C17 witness: format_command("$PUWV?,0") has returned "$PUWV?,0*27".
C17_Witness ==
  /\ frame["worker"].op = "format_command"
  /\ frame["worker"].command = CmdDeviceInfo
  /\ frame["worker"].full_command = CmdDeviceInfo \o <<"*", "2", "7">>

\* C18: format_command returns a text that contains "*" unchanged, and
\* format_command of what format_command returned, under the same flag,
\* returns it again.
C18_EncodeIdempotent ==
  /\ [](\A t \in Threads :
          (frame[t].op = "format_command" /\ Contains(frame[t].command, "*"))
            => frame[t].full_command = frame[t].command)
  /\ [][\A t \in Threads :
          (/\ frame[t].op = "format_command"
           /\ frame'[t].op = "format_command"
           /\ frame'[t].command = frame[t].full_command
           /\ frame'[t].args = frame[t].args)
            => frame'[t].full_command = frame[t].full_command]_vars

\* C18 witness: format_command of "$PUWV?,0*27", itself returned by
\* format_command, has returned it unchanged.
C18_Witness ==
  /\ frame["worker"].op = "format_command"
  /\ frame["worker"].args = <<TRUE>>
  /\ frame["worker"].command = CmdDeviceInfo \o <<"*", "2", "7">>
  /\ frame["worker"].full_command = frame["worker"].command

\* A step that is a call of connect() without a port argument by thread t.
ConnectWithoutPort(t) ==
  /\ frame'[t].op = "connect"
  /\ frame'[t].args = <<NoPort>>

\* What connect() does with what list_available_ports() returned: the first
\* port listed is the one it opens; an empty listing fails the call and
\* opens nothing.
UsesListing(t) ==
  /\ frame'[t].ports # None
  /\ frame'[t].ports = <<>> =>
       /\ frame'[t].outcome = "NoPortAvailable"
       /\ ser' = ser
       /\ orphans' = orphans
       /\ port' = port
  /\ frame'[t].ports # <<>> =>
       /\ frame'[t].outcome \in {"True", "OpenFailed"}
       /\ port' = frame'[t].ports[1]

\* C19 as stated: every call of connect() without a port argument asks
\* list_available_ports() and uses its first result, also after an earlier
\* connect has set a port.
C19_ListsOnEveryCall ==
  [][\A t \in Threads : ConnectWithoutPort(t) => UsesListing(t)]_vars

\* C19 as amended: connect() without a port argument asks
\* list_available_ports() and uses its first result when the monitor has no
\* port stored, failing on an empty listing; when a port is stored it opens
\* that port and does not ask.
C19_ListsWithoutStoredPort ==
  [][\A t \in Threads :
       ConnectWithoutPort(t)
         => IF port = NoPort
              THEN UsesListing(t)
              ELSE /\ frame'[t].ports = None
                   /\ frame'[t].outcome \in {"True", "OpenFailed"}
                   /\ port' = port]_vars

\* C19 witness: connect() without an argument has opened the stored port
\* "A" without asking for the ports.
C19_Witness ==
  /\ frame["worker"].op = "connect"
  /\ frame["worker"].args = <<NoPort>>
  /\ frame["worker"].ports = None
  /\ frame["worker"].outcome = "True"
  /\ port = "A"
  /\ is_open

\* C20: disconnect closes the transport self.ser holds if it is open, and
\* called with no open transport it changes nothing; it always returns.
C20_DisconnectIdempotent ==
  [][\A t \in Threads :
       frame'[t].op = "disconnect"
         => /\ frame'[t].outcome = "returned"
            /\ ~is_open'
            /\ is_open => ser' = "closed"
            /\ ~is_open => ser' = ser
            /\ UNCHANGED <<port, orphans, last_range, last_range_time,
                           salinity>>]_vars

\* C20 witness: disconnect has closed the transport connect had opened.
C20_Witness ==
  /\ frame["worker"].op = "disconnect"
  /\ frame["worker"].outcome = "returned"
  /\ ser = "closed"
  /\ port # NoPort

\* C21: calculate_horizontal_distance returns 0 when the depth difference
\* is at least the slant range in magnitude, and otherwise the square root
\* of slant_range^2 - depth_difference^2 (to the millimetre below);
\* (10, 6) gives 8 and (5, 6) gives 0.
C21_HorizontalDistance ==
  \A t \in Threads :
    frame[t].op = "calculate_horizontal_distance" =>
      LET slant_range == frame[t].args[1]
          depth_difference == frame[t].args[2]
          square == slant_range * slant_range
                      - depth_difference * depth_difference
          r == frame[t].result
      IN /\ Abs(depth_difference) >= slant_range => r = 0
         /\ Abs(depth_difference) < slant_range =>
              /\ r >= 0
              /\ r * r <= square
              /\ square < (r + 1) * (r + 1)
         /\ frame[t].args = <<10000, 6000>> => r = 8000
         /\ frame[t].args = <<5000, 6000>> => r = 0

\* C21 witness: a slant range of
\* 10 m with a depth difference of 6 m has given 8 m.
C21_Witness ==
  /\ frame["worker"].op = "calculate_horizontal_distance"
  /\ frame["worker"].args = <<10000, 6000>>
  /\ frame["worker"].result = 8000

\* The Mackenzie polynomial
\*   1448.96 + 4.591 T - 0.05304 T^2 + 0.0002374 T^3 + 1.340 (S - 35)
\*   + 0.0163 D + 1.675e-7 D^2 - 0.01025 T (S - 35) - 7.139e-13 T D^3
\* at the temperatures, salinities and depths of the model, in mm/s to the
\* nearest whole number.
MackenzieValue(T, S, D) ==
  CASE <<T, S, D>> = <<0, 0, 0>> -> 1402060
    [] <<T, S, D>> = <<0, 0, 100000>> -> 1403692
    [] <<T, S, D>> = <<0, 35000, 0>> -> 1448960
    [] <<T, S, D>> = <<0, 35000, 100000>> -> 1450592
    [] <<T, S, D>> = <<20000, 0, 0>> -> 1481738
    [] <<T, S, D>> = <<20000, 0, 100000>> -> 1483370
    [] <<T, S, D>> = <<20000, 35000, 0>> -> 1521463
    [] <<T, S, D>> = <<20000, 35000, 100000>> -> 1523095

\* C22: calculate_sound_velocity returns the value of the Mackenzie
\* polynomial within 0.01 m/s, with the monitor's salinity for a salinity
\* left out and 0 for a depth left out; for T = 20, S = 35, D = 0 it is
\* 1521.46 within 0.01.
C22_SoundVelocity ==
  \A t \in Threads :
    frame[t].op = "calculate_sound_velocity" =>
      LET T == frame[t].args[1]
          S == IF frame[t].args[2] = NoneNum THEN salinity
               ELSE frame[t].args[2]
          D == IF frame[t].args[3] = NoneNum THEN 0 ELSE frame[t].args[3]
      IN /\ Abs(frame[t].result - MackenzieValue(T, S, D)) <= 10
         /\ <<T, S, D>> = <<20000, 35000, 0>>
              => Abs(frame[t].result - 1521460) <= 10

\* C22 witness: with the salinity left out on a monitor whose salinity is
\* 35 and the depth left out, 20 degrees has given 1521.463 m/s.
C22_Witness ==
  /\ frame["worker"].op = "calculate_sound_velocity"
  /\ frame["worker"].args = <<20000, NoneNum, NoneNum>>
  /\ salinity = 35000
  /\ frame["worker"].result = 1521463

\* C23: while a send waits in a read its command is already written; the
\* primary read is entered from the write and before anything of the
\* follow-up is read; a follow-up read is entered from the primary read or
\* from the follow-up read before it.
C23_WriteThenReadsInOrder ==
  /\ [](\A t \in Threads :
          pc[t] \in {"primary", "followup"} =>
            frame[t].tx = <<frame[t].full_command \o <<"\n">>>>)
  /\ [](\A t \in Threads :
          pc[t] = "primary" =>
            /\ frame[t].main_response = None
            /\ frame[t].additional_responses = <<>>
            /\ frame[t].timeout_count = 0)
  /\ [][\A t \in Threads :
          /\ pc'[t] = "primary" => pc[t] \in {"idle", "primary"}
          /\ pc'[t] = "followup" => pc[t] \in {"primary", "followup"}
          /\ pc[t] = "followup" => pc'[t] \in {"followup", "idle"}]_vars

\* C23 witness: a send is in its follow-up reads after the acknowledgement
\* was its primary response, and has read a line there.
C23_Witness ==
  /\ pc["worker"] = "followup"
  /\ frame["worker"].main_response = Strip(AckLine)
  /\ frame["worker"].additional_responses = <<Strip(InfoLine)>>
  /\ frame["worker"].timeout_count = 2

DerivesMetrics(t) ==
  /\ EndsOnLine(t)
  /\ TemperatureResponse(Last(frame'[t].additional_responses))

\* C25: connect, disconnect, parse_puwv3 and every step of a send other
\* than the one that calls calculate_velocity leave last_range and
\* last_range_time unchanged, and a stored observation is never cleared.
C25_HistoryOnlyByVelocity ==
  [][/\ \A t \in Threads :
          frame'[t].op \in {"connect", "disconnect", "parse_puwv3"}
            => UNCHANGED <<last_range, last_range_time>>
     /\ \A t \in Threads :
          (frame'[t].op \in SendOps /\ ~DerivesMetrics(t))
            => UNCHANGED <<last_range, last_range_time>>
     /\ last_range # NoneNum => last_range' # NoneNum
     /\ last_range_time # NoneNum => last_range_time' # NoneNum]_vars

\* C25 witness: disconnect has returned with the stored observation still
\* there.
C25_Witness ==
  /\ frame["worker"].op = "disconnect"
  /\ ser = "closed"
  /\ last_range = 7408
  /\ last_range_time = 1

\* C26: a step of a send that changes last_range or last_range_time also
\* appends a metric row, and the send returns.
C26_HistoryOnlyWithRow ==
  [][\A t \in Threads :
       (/\ pc[t] = "followup"
        /\ (last_range' # last_range \/ last_range_time' # last_range_time))
         => /\ frame'[t].outcome = "returned"
            /\ Len(frame'[t].rows) = Len(frame[t].rows) + 1]_vars

\* C28: send_command (also the one of get_device_info) called while
\* self.ser is absent or closed returns at once with (None, []) and has
\* written, read, logged and persisted nothing; salinity, the history and
\* the transport are as before.
C28_RefusedSendDoesNothing ==
  [][\A t \in Threads :
       (pc[t] = "idle" /\ frame'[t].op \in SendOps /\ ser # "open")
         => /\ pc'[t] = "idle"
            /\ frame'[t].outcome = "refused"
            /\ frame'[t].main_response = None
            /\ frame'[t].additional_responses = <<>>
            /\ frame'[t].tx = <<>>
            /\ frame'[t].log = <<>>
            /\ frame'[t].rows = <<>>
            /\ UNCHANGED <<port, ser, orphans, last_range, last_range_time,
                           salinity>>]_vars

\* C28 witness: a send on a closed transport has been refused, with an
\* observation stored and the salinity set by the device.
C28_Witness ==
  /\ frame["worker"].op = "send_command"
  /\ frame["worker"].outcome = "refused"
  /\ ser = "closed"
  /\ last_range # NoneNum
  /\ salinity = 35000

\* C29: the follow-up read of a line that starts with $PUWV3 and that
\* parse_puwv3 cannot parse ends the polling: the send returns with the
\* line as its last additional response and one more RX line in the log,
\* no metric row and the history unchanged.
C29_UnparsedResponseEndsPolling ==
  [][\A t \in Threads :
       (/\ EndsOnLine(t)
        /\ ~parse_puwv3(Last(frame'[t].additional_responses)).ok)
         => /\ frame'[t].outcome = "returned"
            /\ frame'[t].rows = frame[t].rows
            /\ frame'[t].log =
                 Append(frame[t].log,
                        <<"RX", Last(frame'[t].additional_responses)>>)
            /\ UNCHANGED <<last_range, last_range_time>>]_vars

\* C29 witness: a send has returned on "$PUWV3,0" with no row.
C29_Witness ==
  /\ pc["worker"] = "idle"
  /\ frame["worker"].outcome = "returned"
  /\ frame["worker"].additional_responses = <<Strip(ShortLine)>>
  /\ frame["worker"].rows = <<>>
  /\ Last(frame["worker"].log) = <<"RX", Strip(ShortLine)>>

\* The salinity field of a DeviceInfo line of 13 fields or more.
SalinityField(line) == Split(Split(line, "*")[1], ",")[11]

\* C30: parse_puwv_bang of a line with fewer than 13 fields, or whose
\* salinity field is not a number, returns no record, raises nothing and
\* leaves self.salinity as it was.
C30_FailedDecodeKeepsSalinity ==
  [][\A t \in Threads :
       (/\ frame'[t].op = "parse_puwv_bang"
        /\ \/ FieldCount(frame'[t].response) < 13
           \/ ~ParseFloat(SalinityField(frame'[t].response)).ok)
         => /\ frame'[t].outcome = "returned"
            /\ frame'[t].parsed = NoRecord
            /\ salinity' = salinity]_vars

\* C30 witness: with the salinity at 35, parse_puwv_bang of a line whose
\* salinity field is "ab" has returned no record and the salinity is 35.
C30_Witness ==
  /\ frame["worker"].op = "parse_puwv_bang"
  /\ frame["worker"].response = BadSalinityText
  /\ frame["worker"].parsed = NoRecord
  /\ salinity = 35000

\* C27: in the window no two calls of send_command are in progress at once:
\* while the Tk main loop is inside a call (the device-info query of
\* _connection_done) the worker thread is inside none, and as long as
\* self.worker_thread is alive no handler replaces it, so that it changes
\* only by its own progress or by its end.  The second part holds; the
\* first fails when "Start Monitoring" is pressed after the connect thread
\* has ended and before the main loop runs _connection_done(True), the
\* button having been enabled by an _enable_monitor_button that an earlier
\* monitoring thread queued behind _disconnection_done.
C27_GuiSingleFlight ==
  /\ [](pc["ui"] = "idle" \/ pc["worker"] = "idle")
  /\ [][is_alive =>
          \/ gui'.worker_thread = NoThread
          \/ gui'.worker_thread.target = gui.worker_thread.target]_vars

====
